---------------------------- MODULE Spec2Model ----------------------------
(***************************************************************************)
(* A model of the extio crate: the Extio trait (src/src/lib.rs), whose     *)
(* operations all carry a default body, and the reference backend          *)
(* MyInterface (src/src/main.rs), which overrides http_request by          *)
(* forwarding the request to a reqwest Client.                              *)
(*                                                                         *)
(* A call is a slot of `task`.  A synchronous operation runs its body in   *)
(* the step that calls it.  An async operation (async_trait) returns a     *)
(* boxed future that runs nothing until it is polled; it then runs up to   *)
(* its next await point in one step.  The transport (reqwest / the         *)
(* network) and the process environment are the environment of the model.  *)
(***************************************************************************)
EXTENDS Naturals, Sequences, FiniteSets, TLC

VARIABLES
    backend,    \* the backend instance the callers share
    tlsOk,      \* whether Client::new() can initialise its TLS backend
    clock,      \* the system clock
    osEnv,      \* the process environment: key -> value or Unset
    envReads,   \* keys of the process environment read so far
    task,       \* the calls: one record per caller slot
    httpCalls,  \* http_request calls issued so far
    droppedAt   \* the positions at which futures were dropped so far

vars ==
    <<backend, tlsOk, clock, osEnv, envReads, task, httpCalls, droppedAt>>

-----------------------------------------------------------------------------
(* Bounds of the model. *)

NumTasks == 2       \* concurrent caller slots
MaxClock == 2       \* the clock ticks at most this often
MaxHttpCalls == 3   \* http_request calls counted in httpCalls
MaxHdrs == 3        \* header lines of a response on the wire
MaxBody == 2        \* body bytes of a response

Tasks == 1..NumTasks

-----------------------------------------------------------------------------
(* The trait: its operations and their classification. *)

SyncOps ==
    {"read_file", "write_file", "delete_file", "list_dir", "now", "get_env",
     "set_env", "log", "record_metric", "get_secret", "sign", "verify"}

AsyncOps ==
    {"storage_put", "storage_get", "storage_delete", "http_request",
     "tcp_send", "udp_send", "ws_connect", "ws_send", "ws_receive",
     "db_query", "db_execute", "exec", "mq_publish", "mq_consume",
     "ipc_send", "ipc_receive", "sleep"}

Ops == SyncOps \cup AsyncOps

\* The operations whose return type is Result<_, Self::Error>.
FallibleOps ==
    Ops \ {"now", "sleep", "get_env", "set_env", "log", "record_metric"}

\* The message each default body passes to unimplemented!().
DefaultMsg ==
    [op \in Ops \ {"now"} |->
        CASE op = "read_file"      -> "read_file not implemented"
          [] op = "write_file"     -> "write_file not implemented"
          [] op = "delete_file"    -> "delete_file not implemented"
          [] op = "list_dir"       -> "list_dir not implemented"
          [] op = "storage_put"    -> "storage_put not implemented"
          [] op = "storage_get"    -> "storage_get not implemented"
          [] op = "storage_delete" -> "storage_delete not implemented"
          [] op = "http_request"   -> "http_request not implemented"
          [] op = "tcp_send"       -> "tcp_send not implemented"
          [] op = "udp_send"       -> "udp_send not implemented"
          [] op = "ws_connect"     -> "ws_connect not implemented"
          [] op = "ws_send"        -> "ws_send not implemented"
          [] op = "ws_receive"     -> "ws_receive not implemented"
          [] op = "db_query"       -> "db_query not implemented"
          [] op = "db_execute"     -> "db_execute not implemented"
          [] op = "exec"           -> "exec not implemented"
          [] op = "mq_publish"     -> "mq_publish not implemented"
          [] op = "mq_consume"     -> "mq_consume not implemented"
          [] op = "ipc_send"       -> "ipc_send not implemented"
          [] op = "ipc_receive"    -> "ipc_receive not implemented"
          [] op = "sleep"          -> "sleep not implemented"
          [] op = "get_env"        -> "get_env not implemented"
          [] op = "set_env"        -> "set_env not implemented"
          [] op = "log"            -> "log not implemented"
          [] op = "record_metric"  -> "record_metric not implemented"
          [] op = "get_secret"     -> "get_secret not implemented"
          [] op = "sign"           -> "sign not implemented"
          [] op = "verify"         -> "verify not implemented"]

-----------------------------------------------------------------------------
(* Outcomes of a call, as its caller observes them. *)

NoOutcome == [kind |-> "none"]

\* A panic unwinding out of the call.
Panic(msg) == [kind |-> "panic", msg |-> msg]

\* The value of an operation whose return type carries no error.
Value(v) == [kind |-> "value", val |-> v]

\* Ok(response) of http_request.
Ok(resp) == [kind |-> "ok", resp |-> resp]

\* Err(e) of the backend's associated error type.
Err(e) == [kind |-> "err", err |-> e]

\* enum MyError { Reqwest }
MyError == {"Reqwest"}

\* A body that reads nothing of the process environment.
Pure(outcome) == [outcome |-> outcome, reads |-> {}]


-----------------------------------------------------------------------------
(* The default bodies of the trait (lib.rs). *)

\* Variant: the default reports through the error type, as a genuine failure.
unimplemented_as_error(msg) == Pure(Err("Reqwest"))

\* unimplemented!(msg): the body panics; nothing is returned.
unimplemented(msg) == Pure(Panic(msg))

\* Variant: now returns UNIX_EPOCH instead of reading the clock.
now_epoch(clk) == Pure(Value(0))

\* fn now(&self) -> SystemTime { SystemTime::now() }
now(clk) == Pure(Value(clk))

\* Variant: the default falls through to std::env::var.
get_env_from_os(key, env) == [outcome |-> Value(env[key]), reads |-> {key}]

\* fn get_env(&self, key) -> Option<String> { unimplemented!(..) }
get_env(key, env) == unimplemented(DefaultMsg["get_env"])

\* Variant: the defaults other than now succeed silently.
Default_silent(op, arg, clk, env) ==
    IF op = "now" THEN now(clk) ELSE Pure(Value("default"))

\* The default body of operation op, called with arg when the clock reads
\* clk and the process environment is env.
Default(op, arg, clk, env) ==
    CASE op = "now"     -> now(clk)
      [] op = "get_env" -> get_env(arg, env)
      [] OTHER          -> unimplemented(DefaultMsg[op])

\* Variant: the override of http_request also answers tcp_send.
Overrides_also_tcp_send(b) ==
    IF b = "MyInterface" THEN {"http_request", "tcp_send"} ELSE {}

\* The operations a backend overrides: `impl Extio for MyInterface` defines
\* http_request alone; "Bare" is an impl that defines the error type only.
Overrides(b) == IF b = "MyInterface" THEN {"http_request"} ELSE {}

Backends == {"Bare", "MyInterface"}

-----------------------------------------------------------------------------
(* http::HeaderMap: a multimap.  Its entries are kept in the order their   *)
(* names were first added, each with its values in the order added;        *)
(* iteration yields every (name, value) pair, entry by entry.              *)

EmptyMap == <<>>

HasName(m, k) == \E n \in 1..Len(m) : m[n].name = k

IndexOf(m, k) == CHOOSE n \in 1..Len(m) : m[n].name = k

\* HeaderMap::append, as Builder::header and RequestBuilder::header use it.
HeaderMap_append(m, k, v) ==
    IF HasName(m, k)
    THEN [m EXCEPT ![IndexOf(m, k)].values = Append(@, v)]
    ELSE Append(m, [name |-> k, values |-> <<v>>])

RECURSIVE EntryPairs(_, _)
EntryPairs(k, vs) ==
    IF vs = <<>> THEN <<>> ELSE <<<<k, Head(vs)>>>> \o EntryPairs(k, Tail(vs))

\* HeaderMap::iter
RECURSIVE HeaderMap_iter(_)
HeaderMap_iter(m) ==
    IF m = <<>> THEN <<>>
    ELSE EntryPairs(Head(m).name, Head(m).values) \o HeaderMap_iter(Tail(m))

\* The map a parser builds from header lines, appending each in turn.
RECURSIVE HeaderMap_from(_)
HeaderMap_from(lines) ==
    IF lines = <<>> THEN EmptyMap
    ELSE LET n == Len(lines)
         IN  HeaderMap_append(HeaderMap_from(SubSeq(lines, 1, n - 1)),
                              lines[n][1], lines[n][2])

-----------------------------------------------------------------------------
(* Requests of the contract (http::Request<Vec<u8>>) and their translation *)
(* into a reqwest request.                                                 *)

NoUri == [scheme |-> "", authority |-> "", path |-> ""]

NoReq == [method |-> "-", uri |-> NoUri, headers |-> EmptyMap, body |-> <<>>]

\* parts.uri.to_string(): scheme "://" authority path, the path of an
\* absolute-form URI with none being "/".
Uri_to_string(u) ==
    <<u.scheme, u.authority,
      IF u.path = "" /\ u.scheme # "" THEN "/" ELSE u.path>>

\* reqwest's IntoUrl for &str: Url::parse, then the URL must have a host.
IntoUrl(s) ==
    IF s[1] = "" \/ s[2] = ""
    THEN [ok |-> FALSE, url |-> <<"", "", "">>]
    ELSE [ok |-> TRUE, url |-> s]

\* client.request(method, &uri): a builder holding the request or an error.
Client_request(method, s) ==
    [err |-> ~IntoUrl(s).ok, method |-> method, url |-> IntoUrl(s).url,
     headers |-> EmptyMap, body |-> <<>>]

\* RequestBuilder::header
RequestBuilder_header(rb, k, v) ==
    IF rb.err THEN rb ELSE [rb EXCEPT !.headers = HeaderMap_append(@, k, v)]

\* for (k, v) in parts.headers.iter() { builder = builder.header(k, v); }
RECURSIVE CopyRequestHeaders(_, _)
CopyRequestHeaders(rb, pairs) ==
    IF pairs = <<>> THEN rb
    ELSE CopyRequestHeaders(
             RequestBuilder_header(rb, Head(pairs)[1], Head(pairs)[2]),
             Tail(pairs))

\* RequestBuilder::body
RequestBuilder_body(rb, body) ==
    IF rb.err THEN rb ELSE [rb EXCEPT !.body = body]

\* Lines 19-34 of http_request: the reqwest request built from req, or the
\* builder's error.
BuildRequest(req) ==
    RequestBuilder_body(
        CopyRequestHeaders(
            Client_request(req.method, Uri_to_string(req.uri)),
            HeaderMap_iter(req.headers)),
        req.body)

NoOut ==
    [err |-> TRUE, method |-> "-", url |-> <<"", "", "">>,
     headers |-> EmptyMap, body |-> <<>>]

-----------------------------------------------------------------------------
(* Responses of the contract (http::Response<Vec<u8>>).                    *)

\* Response::builder().status(status): status is a StatusCode already.
Response_builder(status) ==
    [err |-> FALSE, status |-> status, headers |-> EmptyMap]

\* Variant: the header is set with HeaderMap::insert, which replaces the
\* values the name already has.
Builder_header_insert(b, k, v) ==
    IF b.err THEN b
    ELSE IF HasName(b.headers, k)
    THEN [b EXCEPT !.headers[IndexOf(b.headers, k)].values = <<v>>]
    ELSE [b EXCEPT !.headers = Append(@, [name |-> k, values |-> <<v>>])]

\* http::response::Builder::header
Builder_header(b, k, v) ==
    IF b.err THEN b ELSE [b EXCEPT !.headers = HeaderMap_append(@, k, v)]

\* for (k, v) in headers.iter() { builder = builder.header(k, v); }
RECURSIVE CopyResponseHeaders(_, _)
CopyResponseHeaders(b, pairs) ==
    IF pairs = <<>> THEN b
    ELSE CopyResponseHeaders(
             Builder_header(b, Head(pairs)[1], Head(pairs)[2]), Tail(pairs))

\* builder.body(bytes).map_err(|_| MyError::Reqwest)
Builder_body(b, bytes) ==
    IF b.err THEN Err("Reqwest")
    ELSE Ok([status |-> b.status, headers |-> b.headers, body |-> bytes])


-----------------------------------------------------------------------------
(* A call.  pc is its position: "idle" (no call), "created" (the future of *)
(* an async operation, not yet polled), "await_execute" and "await_bytes"  *)
(* (suspended at http_request's first and second await), "done".           *)
(* status and headers are the locals of http_request; sent counts how      *)
(* often the call handed a request to client.execute, sentReq is that      *)
(* request and failed the stage that failed.  The other fields are history *)
(* kept for the properties: calledAt (the clock when called), afterDrops   *)
(* (futures had been dropped at both await points when it was called),     *)
(* wire (what the transport has delivered: "none", "head", "body",         *)
(* "exec_error", "bytes_error"), wireHead and wireBody (the response's     *)
(* parts as delivered), overlapped (the call was resumed while another     *)
(* call was suspended).                                                    *)

NoHead == [status |-> 0, headers |-> EmptyMap]

IdleTask ==
    [pc |-> "idle", op |-> "-", arg |-> "-", req |-> NoReq, calledAt |-> 0,
     sent |-> 0, sentReq |-> NoOut, failed |-> "none",
     status |-> 0, headers |-> EmptyMap, outcome |-> NoOutcome,
     afterDrops |-> FALSE, wire |-> "none", wireHead |-> NoHead,
     wireBody |-> <<>>, overlapped |-> FALSE]

\* What the transport answers to execute: an error, or a response's status
\* and headers.
ExecError == [ok |-> FALSE, status |-> 0, headers |-> EmptyMap]

ExecHead(status, lines) ==
    [ok |-> TRUE, status |-> status, headers |-> HeaderMap_from(lines)]

\* What the transport answers to bytes(): an error, or the body.
BytesError == [ok |-> FALSE, bytes |-> <<>>]

BytesBody(bytes) == [ok |-> TRUE, bytes |-> bytes]

\* The call returns or unwinds with outcome.
Finish(t, outcome) == [t EXCEPT !.pc = "done", !.outcome = outcome]

\* http_request, first poll (lines 19-36): Client::new() panics when no TLS
\* backend can be initialised; a request that cannot be built is
\* MyError::Reqwest; otherwise the request is handed to client.execute and
\* the call suspends.
http_request_poll(t, tls) ==
    IF ~tls THEN Finish(t, Panic("Client::new()"))
    ELSE IF BuildRequest(t.req).err
    THEN Finish([t EXCEPT !.failed = "build"], Err("Reqwest"))
    ELSE [t EXCEPT !.pc = "await_execute", !.sent = @ + 1,
                   !.sentReq = BuildRequest(t.req)]

\* Variant: a failed execute is tried once more before it is reported.
http_request_executed_retry(t, r) ==
    IF ~r.ok /\ t.sent < 2 THEN [t EXCEPT !.sent = @ + 1]
    ELSE IF ~r.ok THEN Finish([t EXCEPT !.failed = "execute"], Err("Reqwest"))
    ELSE [t EXCEPT !.pc = "await_bytes",
                   !.status = r.status, !.headers = r.headers]

\* http_request resumed with the answer r of client.execute (lines 36-45):
\* an error is MyError::Reqwest; otherwise status and headers are kept and
\* the call suspends in response.bytes().
http_request_executed(t, r) ==
    IF ~r.ok THEN Finish([t EXCEPT !.failed = "execute"], Err("Reqwest"))
    ELSE [t EXCEPT !.pc = "await_bytes",
                   !.status = r.status, !.headers = r.headers]

\* Variant: a body that cannot be read is taken as empty
\* (unwrap_or_default in place of `?`).
http_request_bytes_lossy(t, b) ==
    Finish(t,
           Builder_body(
               CopyResponseHeaders(Response_builder(t.status),
                                   HeaderMap_iter(t.headers)),
               IF b.ok THEN b.bytes ELSE <<>>))

\* http_request resumed with the answer b of response.bytes() (lines
\* 43-55): an error is MyError::Reqwest; otherwise the response is built.
http_request_bytes(t, b) ==
    IF ~b.ok THEN Finish([t EXCEPT !.failed = "bytes"], Err("Reqwest"))
    ELSE LET out == Builder_body(
                        CopyResponseHeaders(Response_builder(t.status),
                                            HeaderMap_iter(t.headers)),
                        b.bytes)
         IN  Finish([t EXCEPT !.failed = IF out.kind = "err" THEN "response"
                                         ELSE "none"],
                    out)

\* Variant: the calls read their bodies through one shared buffer, which
\* still holds the body of a call that has finished.
BodyRead_shared(ts, i, b) ==
    LET others == {j \in DOMAIN ts \ {i} :
                      ts[j].pc = "done" /\ ts[j].outcome.kind = "ok"}
    IN  IF others = {} THEN b
        ELSE ts[CHOOSE j \in others : TRUE].outcome.resp.body

\* The bytes call i reads from its own response.
BodyRead(ts, i, b) == b

\* Variant: a dropped future leaves the backend locked.
BackendAfterDrop_poisoned(b) == "Poisoned"

\* `self` after a future of http_request was dropped: MyInterface has no
\* field and http_request takes &self, so nothing of it is left locked.
BackendAfterDrop(b) == b

-----------------------------------------------------------------------------
(* The operations of a caller, the scheduler and the environment. *)

AwaitPoints == {"await_execute", "await_bytes"}

\* Slot i calls op.  A synchronous operation runs its body now; an async
\* one only creates its future.  No backend overrides a synchronous
\* operation.
Call(i, op, arg, req) ==
    /\ task[i].pc = "idle"
    /\ op = "http_request" => httpCalls < MaxHttpCalls
    /\ LET t    == [IdleTask EXCEPT !.op = op, !.arg = arg, !.req = req,
                                    !.calledAt = clock,
                                    !.afterDrops =
                                        AwaitPoints \subseteq droppedAt]
           body == Default(op, arg, clock, osEnv)
       IN  IF op \in AsyncOps
           THEN /\ task' = [task EXCEPT ![i] = [t EXCEPT !.pc = "created"]]
                /\ envReads' = envReads
           ELSE /\ task' = [task EXCEPT ![i] = Finish(t, body.outcome)]
                /\ envReads' = envReads \cup body.reads
    /\ httpCalls' = IF op = "http_request" THEN httpCalls + 1 ELSE httpCalls
    /\ UNCHANGED <<backend, tlsOk, clock, osEnv, droppedAt>>

\* The future of slot i is polled for the first time.
Poll(i) ==
    /\ task[i].pc = "created"
    /\ LET t    == task[i]
           body == Default(t.op, t.arg, clock, osEnv)
       IN  IF t.op \in Overrides(backend)
           THEN /\ task' = [task EXCEPT ![i] = http_request_poll(t, tlsOk)]
                /\ envReads' = envReads
           ELSE /\ task' = [task EXCEPT ![i] = Finish(t, body.outcome)]
                /\ envReads' = envReads \cup body.reads
    /\ UNCHANGED <<backend, tlsOk, clock, osEnv, httpCalls, droppedAt>>

\* Another call is suspended at an await point.
OthersSuspended(i) ==
    \E j \in Tasks \ {i} : task[j].pc \in {"await_execute", "await_bytes"}

\* reqwest refuses a URL whose scheme is neither http nor https.
SchemeAllowed(url) == url[1] \in {"http", "https"}

\* client.execute of slot i completes with r.
ExecuteReturns(i, r) ==
    /\ task[i].pc = "await_execute"
    /\ r.ok => SchemeAllowed(task[i].sentReq.url)
    /\ task' = [task EXCEPT ![i] =
                   [http_request_executed(task[i], r) EXCEPT
                       !.wire = IF r.ok THEN "head" ELSE "exec_error",
                       !.wireHead = [status |-> r.status,
                                     headers |-> r.headers],
                       !.overlapped = @ \/ OthersSuspended(i)]]
    /\ UNCHANGED <<backend, tlsOk, clock, osEnv, envReads, httpCalls, droppedAt>>

\* response.bytes() of slot i completes with b.
BytesReturns(i, b) ==
    /\ task[i].pc = "await_bytes"
    /\ task' = [task EXCEPT ![i] =
                   [http_request_bytes(task[i],
                        [b EXCEPT !.bytes = BodyRead(task, i, b.bytes)])
                    EXCEPT !.wire = IF b.ok THEN "body" ELSE "bytes_error",
                           !.wireBody = b.bytes,
                           !.overlapped = @ \/ OthersSuspended(i)]]
    /\ UNCHANGED <<backend, tlsOk, clock, osEnv, envReads, httpCalls, droppedAt>>

\* The caller drops the future of slot i before it completed.
Cancel(i) ==
    /\ task[i].pc \in {"created", "await_execute", "await_bytes"}
    /\ droppedAt' = droppedAt \cup {task[i].pc}
    /\ task' = [task EXCEPT ![i] = IdleTask]
    /\ backend' = BackendAfterDrop(backend)
    /\ UNCHANGED <<tlsOk, clock, osEnv, envReads, httpCalls>>

\* The caller of slot i takes the outcome; the slot is free for a new call.
Return(i) ==
    /\ task[i].pc = "done"
    /\ task' = [task EXCEPT ![i] = IdleTask]
    /\ UNCHANGED <<backend, tlsOk, clock, osEnv, envReads, httpCalls, droppedAt>>

\* Time passes.
Tick ==
    /\ clock < MaxClock
    /\ clock' = clock + 1
    /\ UNCHANGED <<backend, tlsOk, osEnv, envReads, task, httpCalls, droppedAt>>


-----------------------------------------------------------------------------
(* The inputs the specifications draw from. *)

SeqUpTo(S, n) == UNION {[1..k -> S] : k \in 0..n}

Args == {"NONEXISTENT_KEY_X", "PATH"}

\* Process environments: PATH set or not, NONEXISTENT_KEY_X never set.
EnvChoices ==
    {[k \in Args |-> IF k = "PATH" THEN v ELSE "Unset"] :
        v \in {"Unset", "/usr/bin"}}

\* The arguments op takes.
ArgsOf(op) ==
    IF op \in {"http_request", "now", "ws_receive"} THEN {"-"} ELSE Args

ReqsOf(op, R) == IF op = "http_request" THEN R ELSE {NoReq}

RustLang ==
    [scheme |-> "https", authority |-> "www.rust-lang.org", path |-> ""]

Local == [scheme |-> "http", authority |-> "localhost", path |-> "/a"]

Relative == [scheme |-> "", authority |-> "", path |-> "/relative"]

Ftp == [scheme |-> "ftp", authority |-> "host", path |-> "/f"]

Uris == {RustLang, Local, Relative, Ftp}

Methods == {"GET", "POST"}

Cookie1 == <<"set-cookie", "a=1">>

Cookie2 == <<"set-cookie", "b=2">>

ContentType == <<"content-type", "text/html">>

HdrLines == {Cookie1, Cookie2, ContentType}

Bytes == {0, 255}

Statuses == {200, 404}

\* The request main() sends (main.rs, lines 63-67).
MainReq ==
    [method |-> "GET", uri |-> RustLang, headers |-> EmptyMap, body |-> <<>>]

PostReq ==
    [method |-> "POST", uri |-> Local,
     headers |-> HeaderMap_from(<<Cookie1, ContentType, Cookie2>>),
     body |-> <<0, 255>>]

RelativeReq ==
    [method |-> "GET", uri |-> Relative, headers |-> EmptyMap, body |-> <<>>]

SmallReqs == {MainReq, PostReq, RelativeReq}

SmallExec ==
    {ExecError, ExecHead(200, <<ContentType>>),
     ExecHead(404, <<Cookie1, ContentType, Cookie2>>)}

SmallBytes == {BytesError, BytesBody(<<0>>), BytesBody(<<255, 0>>)}

\* A mocked transport's canned response to req.
CannedHead(req) ==
    IF req = MainReq THEN ExecHead(200, <<ContentType>>)
    ELSE ExecHead(404, <<Cookie1, ContentType, Cookie2>>)

CannedBody(req) ==
    IF req = MainReq THEN BytesBody(<<0>>) ELSE BytesBody(<<255, 0>>)

RichReqs ==
    {[method |-> m, uri |-> u, headers |-> HeaderMap_from(l), body |-> b] :
        m \in Methods, u \in Uris,
        l \in {<<>>, <<Cookie1, ContentType, Cookie2>>},
        b \in {<<>>, <<0, 255>>}}

RichExec ==
    {ExecError} \cup
    {ExecHead(s, l) : s \in Statuses, l \in SeqUpTo(HdrLines, MaxHdrs)}

RichBytes ==
    {BytesError} \cup {BytesBody(x) : x \in SeqUpTo(Bytes, MaxBody)}

-----------------------------------------------------------------------------
(* Spec: one caller invokes any operation of the trait, one call after     *)
(* the other, on a backend that overrides nothing or on MyInterface.       *)

Init ==
    /\ backend \in Backends
    /\ tlsOk \in BOOLEAN
    /\ clock = 0
    /\ osEnv \in EnvChoices
    /\ envReads = {}
    /\ task = [i \in Tasks |-> IdleTask]
    /\ httpCalls = 0
    /\ droppedAt = {}

CallAny(i, R) ==
    \E op \in Ops : \E arg \in ArgsOf(op) : \E req \in ReqsOf(op, R) :
        Call(i, op, arg, req)

Next ==
    \/ CallAny(1, SmallReqs)
    \/ Poll(1)
    \/ \E r \in SmallExec : ExecuteReturns(1, r)
    \/ \E b \in SmallBytes : BytesReturns(1, b)
    \/ Return(1)
    \/ Tick

Spec == Init /\ [][Next]_vars

-----------------------------------------------------------------------------
(* SpecHttp: one caller sends requests through MyInterface; the transport  *)
(* answers with any response within the bounds, or fails.                  *)

InitHttp ==
    /\ backend = "MyInterface"
    /\ tlsOk \in BOOLEAN
    /\ clock = 0
    /\ osEnv \in EnvChoices
    /\ envReads = {}
    /\ task = [i \in Tasks |-> IdleTask]
    /\ httpCalls = 0
    /\ droppedAt = {}

NextHttp ==
    \/ \E req \in RichReqs : Call(1, "http_request", "-", req)
    \/ Poll(1)
    \/ \E r \in RichExec : ExecuteReturns(1, r)
    \/ \E b \in RichBytes : BytesReturns(1, b)
    \/ Return(1)

SpecHttp == InitHttp /\ [][NextHttp]_vars

-----------------------------------------------------------------------------
(* SpecConc: NumTasks callers share one MyInterface; their calls           *)
(* interleave at every await point and may be dropped before completion.   *)
(* The transport fails or answers each request with its canned response.   *)

NextConc ==
    \E i \in Tasks :
        \/ \E req \in SmallReqs : Call(i, "http_request", "-", req)
        \/ Poll(i)
        \/ \E r \in {ExecError, CannedHead(task[i].req)} :
               ExecuteReturns(i, r)
        \/ \E b \in {BytesError, CannedBody(task[i].req)} :
               BytesReturns(i, b)
        \/ Cancel(i)
        \/ Return(i)

SpecConc == InitHttp /\ [][NextConc]_vars


-----------------------------------------------------------------------------
(* Properties. *)

Done(i) == task[i].pc = "done"

\* The backend has not overridden the operation slot i called.
NotOverridden(i) == backend = "Bare" \/ task[i].op # "http_request"

\* The panic of unimplemented!("<op> not implemented").
NotImplemented(op) == Panic(op \o " not implemented")

\* The response the transport delivered to slot i, as the contract's.
Delivered(i) ==
    [status |-> task[i].wireHead.status,
     headers |-> task[i].wireHead.headers,
     body |-> task[i].wireBody]

\* The request of slot i cannot be built: its URI has no scheme or no host.
Unbuildable(i) ==
    task[i].req.uri.scheme = "" \/ task[i].req.uri.authority = ""

(* C1, as stated: a finished call of an operation other than now that the  *)
(* backend has not overridden has returned a failure; it has not panicked  *)
(* and has not returned a success.                                         *)
C1_ReturnsNotSupported ==
    \A i \in Tasks :
        Done(i) /\ NotOverridden(i) /\ task[i].op # "now"
            => task[i].outcome.kind = "err"

(* C1, amended: a finished call of an operation other than now that the    *)
(* backend has not overridden has panicked with "<op> not implemented";    *)
(* it has returned nothing, neither a success nor an Err.                  *)
C1_DefaultPanics ==
    \A i \in Tasks :
        Done(i) /\ NotOverridden(i) /\ task[i].op # "now"
            => task[i].outcome = NotImplemented(task[i].op)

C1_Witness ==
    /\ backend = "Bare"
    /\ Done(1)
    /\ task[1].op = "storage_get"
    /\ task[1].outcome.kind = "panic"

(* C2, as stated: on MyInterface, before and after any number of           *)
(* http_request calls, a finished call of any operation other than         *)
(* http_request and now has reported the "not supported" failure.          *)
C2_OthersReportNotSupported ==
    backend = "MyInterface" =>
        \A i \in Tasks : \A n \in 0..MaxHttpCalls :
            Done(i) /\ httpCalls = n /\ task[i].op \notin {"http_request", "now"}
                => task[i].outcome.kind = "err"

(* C2, amended: on MyInterface, before and after any number of             *)
(* http_request calls, a finished call of any operation other than         *)
(* http_request and now has panicked with "<op> not implemented", as it    *)
(* does on a backend that overrides nothing.                               *)
C2_OthersKeepDefault ==
    backend = "MyInterface" =>
        \A i \in Tasks : \A n \in 0..MaxHttpCalls :
            Done(i) /\ httpCalls = n /\ task[i].op \notin {"http_request", "now"}
                => task[i].outcome = NotImplemented(task[i].op)

C2_Witness ==
    /\ backend = "MyInterface"
    /\ tlsOk
    /\ httpCalls >= 2
    /\ Done(1)
    /\ task[1].op = "tcp_send"
    /\ task[1].outcome = NotImplemented("tcp_send")

(* C3, as stated: what a caller receives from a fallible operation the     *)
(* backend has not overridden is a value of the backend's error type, and  *)
(* it differs from the value of a genuine failure, MyError::Reqwest.       *)
C3_UnsupportedIsDistinctError ==
    \A i \in Tasks :
        Done(i) /\ NotOverridden(i) /\ task[i].op \in FallibleOps
            => /\ task[i].outcome.kind = "err"
               /\ task[i].outcome # Err("Reqwest")

(* C3, amended: a fallible operation the backend has not overridden ends   *)
(* in a panic, which is no value of the error type and so differs from     *)
(* Err(MyError::Reqwest); only a genuine failure of the overridden         *)
(* http_request is delivered through the error type, as MyError::Reqwest.  *)
C3_UnsupportedIsPanic ==
    \A i \in Tasks :
        Done(i) =>
            /\ NotOverridden(i) /\ task[i].op \in FallibleOps
                   => /\ task[i].outcome.kind = "panic"
                      /\ task[i].outcome # Err("Reqwest")
            /\ task[i].outcome.kind = "err"
                   => /\ backend = "MyInterface"
                      /\ task[i].op = "http_request"
                      /\ task[i].outcome.err \in MyError
                      /\ (Unbuildable(i) \/
                          task[i].wire \in {"exec_error", "bytes_error"})

C3_Witness ==
    /\ backend = "MyInterface"
    /\ httpCalls > 0
    /\ Done(1)
    /\ task[1].op = "get_secret"
    /\ task[1].outcome.kind = "panic"

(* C4, as stated: a finished get_env(key) on a backend that does not       *)
(* override it has returned the "not supported" failure and has not read   *)
(* the process environment.                                                *)
C4_GetEnvReturnsNotSupported ==
    \A i \in Tasks :
        Done(i) /\ task[i].op = "get_env"
            => /\ task[i].outcome.kind = "err"
               /\ envReads = {}

(* C4, amended: a finished get_env(key) on a backend that does not         *)
(* override it has panicked with "get_env not implemented", whether key is *)
(* set in the process environment or not, and the process environment has  *)
(* not been read.                                                          *)
C4_GetEnvPanics ==
    \A i \in Tasks :
        Done(i) /\ task[i].op = "get_env"
            => /\ task[i].outcome = NotImplemented("get_env")
               /\ envReads = {}

C4_Witness ==
    /\ Done(1)
    /\ task[1].op = "get_env"
    /\ task[1].arg = "PATH"
    /\ osEnv["PATH"] # "Unset"
    /\ task[1].outcome.kind = "panic"

C6_RoundTrip ==
    \A i \in Tasks :
        Done(i) /\ task[i].wire = "body"
            => /\ task[i].outcome.kind = "ok"
               /\ task[i].outcome.resp.status = task[i].wireHead.status
               /\ HeaderMap_iter(task[i].outcome.resp.headers)
                      = HeaderMap_iter(task[i].wireHead.headers)
               /\ task[i].outcome.resp.body = task[i].wireBody

C6_Witness ==
    /\ Done(1)
    /\ task[1].wire = "body"
    /\ HeaderMap_iter(task[1].wireHead.headers)
           = <<Cookie1, Cookie2, ContentType>>
    /\ task[1].wireBody = <<0, 255>>
    /\ task[1].outcome.kind = "ok"

(* C7: a finished http_request on MyInterface in which building the         *)
(* request, executing it, reading the body or building the response failed  *)
(* has returned Err(MyError::Reqwest); and one that returned Ok returns     *)
(* the whole response the transport delivered, after no failure.            *)
C7_FailureIsErr ==
    \A i \in Tasks :
        Done(i) /\ task[i].op = "http_request" =>
            /\ ( \/ tlsOk /\ Unbuildable(i)
                 \/ task[i].wire \in {"exec_error", "bytes_error"}
                 \/ task[i].failed # "none" )
                   => task[i].outcome = Err("Reqwest")
            /\ task[i].outcome.kind = "ok"
                   => /\ task[i].wire = "body"
                      /\ task[i].failed = "none"
                      /\ task[i].outcome.resp = Delivered(i)

C7_Witness ==
    /\ Done(1)
    /\ task[1].wire = "bytes_error"
    /\ task[1].wireHead.headers # EmptyMap
    /\ task[1].outcome = Err("Reqwest")

(* C10: a call of http_request hands its request to the transport at most   *)
(* once: not at all when it returned because the request could not be       *)
(* built, once when it returned otherwise; and once the transport has       *)
(* failed the call has returned, the request handed over that once.         *)
C10_NoRetry ==
    \A i \in Tasks :
        /\ task[i].sent <= 1
        /\ Done(i) /\ task[i].outcome.kind \in {"ok", "err"}
               => task[i].sent = IF Unbuildable(i) THEN 0 ELSE 1
        /\ task[i].wire \in {"exec_error", "bytes_error"}
               => Done(i) /\ task[i].sent = 1

C10_Witness ==
    /\ Done(1)
    /\ task[1].wire = "exec_error"
    /\ task[1].sent = 1
    /\ task[1].outcome = Err("Reqwest")

\* The request the transport must have received from slot i.
OwnRequest(i) ==
    /\ task[i].sentReq.method = task[i].req.method
    /\ task[i].sentReq.url
           = <<task[i].req.uri.scheme, task[i].req.uri.authority,
               IF task[i].req.uri.path = "" THEN "/" ELSE task[i].req.uri.path>>
    /\ HeaderMap_iter(task[i].sentReq.headers)
           = HeaderMap_iter(task[i].req.headers)
    /\ task[i].sentReq.body = task[i].req.body

\* The next step of the call in slot i can be taken, whatever the other
\* calls are doing.
CanProceed(i) ==
    /\ task[i].pc = "created" => ENABLED Poll(i)
    /\ task[i].pc = "await_execute"
           => ENABLED (\E r \in {ExecError, CannedHead(task[i].req)} :
                          ExecuteReturns(i, r))
    /\ task[i].pc = "await_bytes"
           => ENABLED (\E b \in {BytesError, CannedBody(task[i].req)} :
                          BytesReturns(i, b))

(* C8: with NumTasks calls of http_request interleaved on one MyInterface,  *)
(* no call waits for another; the transport has received each call's own    *)
(* request; and a call whose response arrived has returned Ok with the      *)
(* response delivered to it, which is the canned response to its own        *)
(* request.                                                                 *)
C8_Independent ==
    \A i \in Tasks :
        /\ CanProceed(i)
        /\ task[i].sent = 1 => OwnRequest(i)
        /\ Done(i) /\ task[i].wire = "body"
               => /\ task[i].outcome = Ok(Delivered(i))
                  /\ task[i].outcome.resp.status
                         = CannedHead(task[i].req).status
                  /\ task[i].outcome.resp.headers
                         = CannedHead(task[i].req).headers
                  /\ task[i].outcome.resp.body
                         = CannedBody(task[i].req).bytes

C8_Witness ==
    /\ \A i \in {1, 2} :
           /\ Done(i)
           /\ task[i].outcome.kind = "ok"
           /\ task[i].overlapped
    /\ task[1].req # task[2].req
    /\ task[1].outcome.resp.body # task[2].outcome.resp.body

\* What a call of http_request returns, given its request and what the
\* transport delivered to it.
Expected(i) ==
    IF ~tlsOk THEN Panic("Client::new()")
    ELSE IF Unbuildable(i) \/ task[i].wire \in {"exec_error", "bytes_error"}
    THEN Err("Reqwest")
    ELSE Ok(Delivered(i))

(* C9: whatever futures of http_request were dropped, at either await       *)
(* point, the backend is the instance it was, a free slot can call          *)
(* http_request, a call in flight can proceed, and every finished call has  *)
(* the outcome its own request and the transport's answers determine, the   *)
(* same as when no future was ever dropped.                                 *)
C9_UsableAfterCancel ==
    /\ backend = "MyInterface"
    /\ \A i \in Tasks :
           /\ task[i].pc = "idle" /\ httpCalls < MaxHttpCalls
                  => ENABLED Call(i, "http_request", "-", MainReq)
           /\ CanProceed(i)
           /\ Done(i) => task[i].outcome = Expected(i)

C9_Witness ==
    /\ AwaitPoints \subseteq droppedAt
    /\ Done(1)
    /\ task[1].afterDrops
    /\ task[1].outcome.kind = "ok"

=============================================================================
